---- MODULE Spec2Model ----
(***************************************************************************)
(* A model of src/app.py: one run of the Streamlit script, from the upload *)
(* through load_audio, the original playback, the Remove Noise button,     *)
(* remove_noise, and the playback / download of the cleaned audio.         *)
(*                                                                         *)
(* Sample values are exact rationals: a signal is a sequence of integer    *)
(* numerators over one common denominator, kept in lowest terms, so that   *)
(* equal arrays are equal values.  The external collaborators (the two     *)
(* decoders, nr.reduce_noise, st.audio, the file system) are environment   *)
(* choices: each may succeed with any value of the bounded input sets or   *)
(* raise.                                                                  *)
(***************************************************************************)
EXTENDS Integers, Sequences, FiniteSets, TLC

VARIABLES
    pc,             \* position of the script run
    uploaded_file,  \* st.file_uploader's value
    tmp_exists,     \* storage: the temporary file of load_audio exists
    la,             \* locals of load_audio
    loaded,         \* what load_audio returned to main
    audio_data,     \* main's audio_data
    sample_rate,    \* main's sample_rate
    original_bytes, \* main's original_bytes
    cleaned_audio,  \* main's cleaned_audio
    cleaned_bytes,  \* main's cleaned_bytes
    nr_input,       \* the arguments remove_noise was called with
    encodes,        \* audio_to_bytes calls made on cleaned_audio in this run
    ui              \* what the page shows

vars == <<pc, uploaded_file, tmp_exists, la, loaded, audio_data, sample_rate,
          original_bytes, cleaned_audio, cleaned_bytes, nr_input, encodes, ui>>

----------------------------------------------------------------------------
(* Bounds and input sets *)

\* Longest decoded or denoised array, in frames.
MaxLen == 2

\* Numerators of decoded mono samples, over the denominator DecodedDen.
Levels == -2 .. 2

\* Numerators of the samples of a two-channel file, same denominator.
StereoLevels == {-2, 0, 2}

\* Numerators of the samples nr.reduce_noise may return (-3/2, 0, 1/2).
CleanLevels == {-3, 0, 1}

SampleRates == {16000, 44100}

\* File names, as the pieces str.split('.') sees: "." is the separator.
Names == { <<"song">>,
           <<"song", ".", "mp3">>,
           <<"my", ".", "song", ".", "mp3">> }

----------------------------------------------------------------------------
(* Arithmetic *)

Abs(x) == IF x < 0 THEN -x ELSE x

RECURSIVE Gcd(_, _)
Gcd(a, b) == IF b = 0 THEN a ELSE Gcd(b, a % b)

RECURSIVE GcdSeq(_, _)
GcdSeq(s, g) == IF s = <<>> THEN g ELSE GcdSeq(Tail(s), Gcd(Abs(Head(s)), g))

RECURSIVE MaxAbs(_)
MaxAbs(s) ==
    IF s = <<>> THEN 0
    ELSE LET m == MaxAbs(Tail(s)) IN IF Abs(Head(s)) > m THEN Abs(Head(s)) ELSE m

RECURSIVE SumSeq(_)
SumSeq(s) == IF s = <<>> THEN 0 ELSE Head(s) + SumSeq(Tail(s))

\* a / b rounded to the nearest integer, ties to even (lrint), for b > 0.
RoundDiv(a, b) ==
    LET q == a \div b
        r == a % b
    IN  IF 2 * r < b THEN q
        ELSE IF 2 * r > b THEN q + 1
        ELSE IF q % 2 = 0 THEN q ELSE q + 1

SeqsUpTo(S, n) == UNION { [1 .. k -> S] : k \in 0 .. n }

----------------------------------------------------------------------------
(* Values *)

\* A float array: numerators over one denominator, in lowest terms.
Frac(num, den) ==
    LET g == GcdSeq(num, den)
    IN  [some |-> TRUE,
         num  |-> [i \in 1 .. Len(num) |-> num[i] \div g],
         den  |-> den \div g]

\* Python's None where an array is expected.
NoSignal == [some |-> FALSE, num |-> <<>>, den |-> 1]

\* Python's None where a bytes object is expected.
NoBytes == [some |-> FALSE, rate |-> 0, pcm |-> <<>>]

NoDownload ==
    [some |-> FALSE, data |-> NoBytes, file_name |-> <<>>, mime |-> "", label |-> ""]

NoStats == [some |-> FALSE, orig_peak |-> <<0, 1>>, clean_peak |-> <<0, 1>>]

\* What a decoder hands back: ndim, one tuple of channel values per sample
\* index, the common denominator of the values, and the file's sample rate.
NoArray == [ndim |-> 1, frames |-> <<>>, den |-> 1, rate |-> 0]

\* librosa.load(path, sr=None) keeps mono=True: its array is always 1-D.
PrimaryArrays ==
    { [ndim |-> 1, frames |-> f, den |-> 2, rate |-> r] :
        f \in SeqsUpTo({ <<v>> : v \in Levels }, MaxLen), r \in SampleRates }

\* sf.read: 1-D for a one-channel file, (frames, channels) otherwise.
FallbackArrays ==
    PrimaryArrays \cup
    { [ndim |-> 2, frames |-> f, den |-> 2, rate |-> r] :
        f \in SeqsUpTo(StereoLevels \X StereoLevels, MaxLen), r \in SampleRates }

\* nr.reduce_noise is external and its result is not validated by the code:
\* any array, of any length, may come back.
CleanedArrays == { Frac(n, 2) : n \in SeqsUpTo(CleanLevels, MaxLen) }

----------------------------------------------------------------------------
(* load_audio's numerics *)

\* if audio_data.ndim > 1: audio_data = np.mean(audio_data, axis=...)
ToMono(arr) ==
    IF arr.ndim > 1
    THEN Frac([i \in 1 .. Len(arr.frames) |-> SumSeq(arr.frames[i])],
              arr.den * arr.ndim)
    ELSE Frac([i \in 1 .. Len(arr.frames) |-> arr.frames[i][1]], arr.den)

\* np.max(np.abs(a)): raises ValueError on a zero-size array.
PeakRaises(sig) == Len(sig.num) = 0

\* Numerator of np.max(np.abs(a)) over a.den.
PeakNum(sig) == MaxAbs(sig.num)

\* Faulty variant of Normalize: the division is skipped.
Normalize_skipped(sig) == sig

\* if np.max(np.abs(a)) > 0: a = a / np.max(np.abs(a))
Normalize(sig) ==
    IF PeakNum(sig) > 0 THEN Frac(sig.num, PeakNum(sig)) ELSE sig

\* One decoding attempt: decode, down-mix, normalise.  The decoder either
\* raised or handed back arr; an exception anywhere in the attempt ends it.
Attempt(raised, arr) ==
    IF raised
    THEN [status |-> "decode_error", sig |-> NoSignal, rate |-> 0]
    ELSE IF PeakRaises(ToMono(arr))
    THEN [status |-> "normalize_error", sig |-> NoSignal, rate |-> 0]
    ELSE [status |-> "ok", sig |-> Normalize(ToMono(arr)), rate |-> arr.rate]

\* Faulty variant of NeedsFallback: the fallback decoder runs unconditionally.
NeedsFallback_always(status) == TRUE

\* except Exception around the librosa attempt.
NeedsFallback(status) == status # "ok"

----------------------------------------------------------------------------
(* audio_to_bytes *)

HeadroomNum == 95
HeadroomDen == 100
FullScale == 32768

\* Faulty variant of Rescale: the 0.95 factor is dropped.
Rescale_no_headroom(sig) ==
    IF PeakNum(sig) > 0 THEN Frac(sig.num, PeakNum(sig)) ELSE sig

\* if np.max(np.abs(a)) > 0: a = a / np.max(np.abs(a)) * 0.95
Rescale(sig) ==
    IF PeakNum(sig) > 0
    THEN Frac([i \in 1 .. Len(sig.num) |-> sig.num[i] * HeadroomNum],
              PeakNum(sig) * HeadroomDen)
    ELSE sig

Clip16(x) ==
    IF x > FullScale - 1 THEN FullScale - 1
    ELSE IF x < -FullScale THEN -FullScale ELSE x

\* sf.write(..., subtype='PCM_16'): each float is scaled by 2^15, rounded to
\* the nearest integer and clipped to the 16-bit range.
Quantize(sig) ==
    [i \in 1 .. Len(sig.num) |-> Clip16(RoundDiv(sig.num[i] * FullScale, sig.den))]

\* The value audio_to_bytes returns: None when anything in its try raises.
audio_to_bytes(sig, rate) ==
    IF PeakRaises(sig)
    THEN NoBytes
    ELSE [some |-> TRUE, rate |-> rate, pcm |-> Quantize(Rescale(sig))]

\* Faulty variant of CallerArray: the rescaling is done in place (a /= ...).
CallerArray_in_place(sig) == IF PeakRaises(sig) THEN sig ELSE Rescale(sig)

\* The caller's array after audio_to_bytes(sig, ...) returned: the function
\* rebinds its local name to new arrays and never writes into the argument.
CallerArray(sig) == sig

\* Faulty variant of Truthy: the guard is dropped.
Truthy_unguarded(bytes) == TRUE

\* if original_bytes: / if cleaned_bytes:
Truthy(bytes) == bytes.some

----------------------------------------------------------------------------
(* The download's file name *)

RECURSIVE SplitFirst(_)
\* name.split('.')[0]: the pieces before the first separator.
SplitFirst(name) ==
    IF name = <<>> \/ Head(name) = "." THEN <<>>
    ELSE <<Head(name)>> \o SplitFirst(Tail(name))

\* f"cleaned_{uploaded_file.name.split('.')[0]}.wav"
DownloadName(name) == <<"cleaned_">> \o SplitFirst(name) \o <<".wav">>

----------------------------------------------------------------------------
(* State *)

LaInit ==
    [write    |-> "none",       \* the with-block of lines 16-18
     primary  |-> "none",       \* the librosa attempt
     fallback |-> "none",       \* the soundfile attempt
     unlink   |-> "none",       \* os.unlink
     decoded  |-> NoArray,      \* the array of the attempt that succeeded
     result   |-> [sig |-> NoSignal, rate |-> 0]]

UiInit ==
    [errors      |-> {},        \* st.error messages
     success     |-> FALSE,     \* "Audio loaded successfully!"
     orig_audio  |-> NoBytes,   \* st.audio of the original
     orig_plot   |-> FALSE,     \* waveform of the original
     button      |-> FALSE,     \* the Remove Noise button
     clean_audio |-> NoBytes,   \* st.audio of the cleaned audio
     download    |-> NoDownload,
     clean_plot  |-> FALSE,
     stats       |-> NoStats]

Init ==
    /\ pc = "upload"
    /\ uploaded_file = [name |-> <<>>]
    /\ tmp_exists = FALSE
    /\ la = LaInit
    /\ loaded = [sig |-> NoSignal, rate |-> 0]
    /\ audio_data = NoSignal
    /\ sample_rate = 0
    /\ original_bytes = NoBytes
    /\ cleaned_audio = NoSignal
    /\ cleaned_bytes = NoBytes
    /\ nr_input = [sig |-> NoSignal, rate |-> 0]
    /\ encodes = 0
    /\ ui = UiInit

Report(msg) == [ui EXCEPT !.errors = @ \cup {msg}]

----------------------------------------------------------------------------
(* load_audio *)

\* The user picks a file; main calls load_audio(uploaded_file).
Upload ==
    /\ pc = "upload"
    /\ \E n \in Names : uploaded_file' = [name |-> n]
    /\ pc' = "la_write"
    /\ UNCHANGED <<tmp_exists, la, loaded, audio_data, sample_rate, original_bytes,
                   cleaned_audio, cleaned_bytes, nr_input, encodes, ui>>

\* with tempfile.NamedTemporaryFile(delete=False, ...): write the blob.
\* Creating the file may fail (no file), or the write may fail (the file
\* exists and delete=False keeps it); either exception reaches the outer
\* handler.
LA_WriteTemp ==
    /\ pc = "la_write"
    /\ \E outcome \in {"ok", "create_failed", "write_failed"} :
         /\ tmp_exists' = (outcome # "create_failed")
         /\ IF outcome = "ok"
            THEN /\ la' = [la EXCEPT !.write = outcome]
                 /\ pc' = "la_primary"
                 /\ ui' = ui
            ELSE /\ la' = [la EXCEPT !.write = outcome]
                 /\ pc' = "la_return"
                 /\ ui' = Report("Error loading audio file")
    /\ UNCHANGED <<uploaded_file, loaded, audio_data, sample_rate, original_bytes,
                   cleaned_audio, cleaned_bytes, nr_input, encodes>>

\* The inner try: librosa.load, down-mix, normalise.
LA_Primary ==
    /\ pc = "la_primary"
    /\ \E raised \in BOOLEAN :
       \E arr \in (IF raised THEN {NoArray} ELSE PrimaryArrays) :
         LET a == Attempt(raised, arr) IN
         IF NeedsFallback(a.status)
         THEN /\ la' = [la EXCEPT !.primary = a.status]
              /\ ui' = Report("Error with librosa, trying alternative method")
              /\ pc' = "la_fallback"
         ELSE /\ la' = [la EXCEPT !.primary = a.status, !.decoded = arr,
                                  !.result = [sig |-> a.sig, rate |-> a.rate]]
              /\ ui' = ui
              /\ pc' = "la_unlink"
    /\ UNCHANGED <<uploaded_file, tmp_exists, loaded, audio_data, sample_rate,
                   original_bytes, cleaned_audio, cleaned_bytes, nr_input, encodes>>

\* The inner except: sf.read, down-mix, normalise.  An exception here is
\* caught by the outer handler, which returns (None, None).  Both decoders
\* read the same file: where librosa decoded zero samples, sf.read decodes
\* zero frames too.
LA_Fallback ==
    /\ pc = "la_fallback"
    /\ \E raised \in BOOLEAN :
       \E arr \in (IF raised THEN {NoArray} ELSE FallbackArrays) :
         LET a == Attempt(raised, arr) IN
         /\ (la.primary = "normalize_error" /\ ~raised) => arr.frames = <<>>
         /\ IF a.status = "ok"
            THEN /\ la' = [la EXCEPT !.fallback = a.status, !.decoded = arr,
                                     !.result = [sig |-> a.sig, rate |-> a.rate]]
                 /\ ui' = ui
                 /\ pc' = "la_unlink"
            ELSE /\ la' = [la EXCEPT !.fallback = a.status,
                                     !.result = [sig |-> NoSignal, rate |-> 0]]
                 /\ ui' = Report("Error loading audio file")
                 /\ pc' = "la_return"
    /\ UNCHANGED <<uploaded_file, tmp_exists, loaded, audio_data, sample_rate,
                   original_bytes, cleaned_audio, cleaned_bytes, nr_input, encodes>>

\* os.unlink(tmp_file_path), then return audio_data, sample_rate.
LA_Unlink ==
    /\ pc = "la_unlink"
    /\ \E raised \in BOOLEAN :
         IF raised
         THEN /\ la' = [la EXCEPT !.unlink = "raised",
                                  !.result = [sig |-> NoSignal, rate |-> 0]]
              /\ tmp_exists' = tmp_exists
              /\ ui' = Report("Error loading audio file")
         ELSE /\ la' = [la EXCEPT !.unlink = "ok"]
              /\ tmp_exists' = FALSE
              /\ ui' = ui
    /\ pc' = "la_return"
    /\ UNCHANGED <<uploaded_file, loaded, audio_data, sample_rate, original_bytes,
                   cleaned_audio, cleaned_bytes, nr_input, encodes>>

\* audio_data, sample_rate = load_audio(uploaded_file); if audio_data is not None
LA_Return ==
    /\ pc = "la_return"
    /\ loaded' = la.result
    /\ audio_data' = la.result.sig
    /\ sample_rate' = la.result.rate
    /\ la' = LaInit
    /\ IF la.result.sig.some
       THEN /\ ui' = [ui EXCEPT !.success = TRUE]
            /\ pc' = "orig_play"
       ELSE /\ ui' = ui
            /\ pc' = "done"
    /\ UNCHANGED <<uploaded_file, tmp_exists, original_bytes, cleaned_audio,
                   cleaned_bytes, nr_input, encodes>>

----------------------------------------------------------------------------
(* main, after load_audio succeeded *)

\* try: original_bytes = audio_to_bytes(...); if original_bytes: st.audio(...)
\* st.audio may raise; the handler reports it and the run goes on.
PlayOriginal ==
    /\ pc = "orig_play"
    /\ LET b == audio_to_bytes(audio_data, sample_rate) IN
         /\ original_bytes' = b
         /\ audio_data' = CallerArray(audio_data)
         /\ IF Truthy(b)
            THEN \E raised \in BOOLEAN :
                   ui' = IF raised
                         THEN Report("Error playing original audio")
                         ELSE [ui EXCEPT !.orig_audio = b]
            ELSE ui' = Report("Could not generate audio for playback")
    /\ pc' = "orig_plot"
    /\ UNCHANGED <<uploaded_file, tmp_exists, la, loaded, sample_rate,
                   cleaned_audio, cleaned_bytes, nr_input, encodes>>

\* fig_original = create_audio_plot(...); st.pyplot(fig_original)
PlotOriginal ==
    /\ pc = "orig_plot"
    /\ ui' = [ui EXCEPT !.orig_plot = TRUE]
    /\ pc' = "button"
    /\ UNCHANGED <<uploaded_file, tmp_exists, la, loaded, audio_data, sample_rate,
                   original_bytes, cleaned_audio, cleaned_bytes, nr_input, encodes>>

\* if st.button("Remove Noise"): the button is drawn; it is True only in the
\* run its click started.
Button ==
    /\ pc = "button"
    /\ ui' = [ui EXCEPT !.button = TRUE]
    /\ \E clicked \in BOOLEAN : pc' = IF clicked THEN "denoise" ELSE "done"
    /\ UNCHANGED <<uploaded_file, tmp_exists, la, loaded, audio_data, sample_rate,
                   original_bytes, cleaned_audio, cleaned_bytes, nr_input, encodes>>

\* cleaned_audio = remove_noise(audio_data, sample_rate, ...): the library's
\* array, or None when it raised.  The two sidebar settings are passed on
\* unread.
RemoveNoise ==
    /\ pc = "denoise"
    /\ nr_input' = [sig |-> audio_data, rate |-> sample_rate]
    /\ \E res \in CleanedArrays \cup {NoSignal} :
         /\ cleaned_audio' = res
         /\ IF res.some
            THEN /\ ui' = ui
                 /\ pc' = "clean_play"
            ELSE /\ ui' = [ui EXCEPT !.errors =
                              @ \cup {"Error removing noise", "Failed to process audio"}]
                 /\ pc' = "done"
    /\ UNCHANGED <<uploaded_file, tmp_exists, la, loaded, audio_data, sample_rate,
                   original_bytes, cleaned_bytes, encodes>>

Download(bytes, label) ==
    [some      |-> TRUE,
     data      |-> bytes,
     file_name |-> DownloadName(uploaded_file.name),
     mime      |-> "audio/wav",
     label     |-> label]

\* try: cleaned_bytes = audio_to_bytes(cleaned_audio, sample_rate)
\*      if cleaned_bytes: st.audio(...); st.download_button(...)
PlayCleaned ==
    /\ pc = "clean_play"
    /\ encodes' = encodes + 1
    /\ cleaned_audio' = CallerArray(cleaned_audio)
    /\ LET b == audio_to_bytes(cleaned_audio, sample_rate) IN
         /\ cleaned_bytes' = b
         /\ IF Truthy(b)
            THEN \E raised \in BOOLEAN :
                   IF raised
                   THEN /\ ui' = Report("Error playing cleaned audio")
                        /\ pc' = "clean_retry"
                   ELSE /\ ui' = [ui EXCEPT !.clean_audio = b,
                                   !.download = Download(b, "Download Cleaned Audio")]
                        /\ pc' = "clean_plot"
            ELSE /\ ui' = Report("Could not generate cleaned audio for playback")
                 /\ pc' = "clean_plot"
    /\ UNCHANGED <<uploaded_file, tmp_exists, la, loaded, audio_data, sample_rate,
                   original_bytes, nr_input>>

\* Faulty variant of RetryDownload: the handler only reports the error.
RetryDownload_gives_up ==
    /\ pc = "clean_retry"
    /\ pc' = "clean_plot"
    /\ UNCHANGED <<uploaded_file, tmp_exists, la, loaded, audio_data, sample_rate,
                   original_bytes, cleaned_audio, cleaned_bytes, nr_input, encodes, ui>>

\* except Exception: st.error(...); cleaned_bytes = audio_to_bytes(...) again;
\* if cleaned_bytes: st.download_button(... "(Playback Error)" ...)
RetryDownload ==
    /\ pc = "clean_retry"
    /\ encodes' = encodes + 1
    /\ cleaned_audio' = CallerArray(cleaned_audio)
    /\ LET b == audio_to_bytes(cleaned_audio, sample_rate) IN
         /\ cleaned_bytes' = b
         /\ ui' = IF Truthy(b)
                  THEN [ui EXCEPT !.download =
                          Download(b, "Download Cleaned Audio (Playback Error)")]
                  ELSE ui
    /\ pc' = "clean_plot"
    /\ UNCHANGED <<uploaded_file, tmp_exists, la, loaded, audio_data, sample_rate,
                   original_bytes, nr_input>>

\* try: fig_cleaned = create_audio_plot(cleaned_audio, ...); st.pyplot(...)
PlotCleaned ==
    /\ pc = "clean_plot"
    /\ ui' = [ui EXCEPT !.clean_plot = TRUE]
    /\ pc' = "stats"
    /\ UNCHANGED <<uploaded_file, tmp_exists, la, loaded, audio_data, sample_rate,
                   original_bytes, cleaned_audio, cleaned_bytes, nr_input, encodes>>

\* The four st.metric calls.  np.max(np.abs(cleaned_audio)) is outside any
\* try: on a zero-size array it raises and the script run ends there.
Statistics ==
    /\ pc = "stats"
    /\ IF PeakRaises(audio_data) \/ PeakRaises(cleaned_audio)
       THEN /\ ui' = ui
            /\ pc' = "crashed"
       ELSE /\ ui' = [ui EXCEPT !.stats =
                        [some       |-> TRUE,
                         orig_peak  |-> <<PeakNum(audio_data), audio_data.den>>,
                         clean_peak |-> <<PeakNum(cleaned_audio), cleaned_audio.den>>]]
            /\ pc' = "done"
    /\ UNCHANGED <<uploaded_file, tmp_exists, la, loaded, audio_data, sample_rate,
                   original_bytes, cleaned_audio, cleaned_bytes, nr_input, encodes>>

Next ==
    \/ Upload
    \/ LA_WriteTemp
    \/ LA_Primary
    \/ LA_Fallback
    \/ LA_Unlink
    \/ LA_Return
    \/ PlayOriginal
    \/ PlotOriginal
    \/ Button
    \/ RemoveNoise
    \/ PlayCleaned
    \/ RetryDownload
    \/ PlotCleaned
    \/ Statistics

Spec == Init /\ [][Next]_vars

----------------------------------------------------------------------------
(* Properties *)

Failed(status) == status \in {"decode_error", "normalize_error"}

BothAttemptsFailed == Failed(la.primary) /\ Failed(la.fallback)

Returned == la.result.sig

\* C1: on every exit path of load_audio (primary succeeds, fallback succeeds,
\* both decoders fail, the temporary write fails) the temporary file no
\* longer exists when load_audio returns.
C1_TempFileRemoved ==
    (pc = "la_return" /\ la.unlink # "raised") => ~tmp_exists

\* C2, as claimed: the fallback runs only after the primary attempt failed;
\* load_audio returns (None, None), with an error reported, exactly when both
\* attempts failed; otherwise it returns a signal with the decoder's rate.
C2_FailureIffBothDecodersFail ==
    pc = "la_return" =>
        /\ la.fallback # "none" => Failed(la.primary)
        /\ ~Returned.some <=> BothAttemptsFailed
        /\ ~Returned.some => "Error loading audio file" \in ui.errors
        /\ Returned.some => /\ la.result.rate = la.decoded.rate
                            /\ la.result.rate \in SampleRates

\* C2, amended: load_audio returns (None, None), with an error reported,
\* exactly when an exception reaches its outer handler: creating or writing
\* the temporary file failed, both attempts failed, or os.unlink raised.
\* Otherwise it returns a signal with the decoder's rate; the fallback runs
\* only after the primary attempt failed.
C2_FailureIffOuterHandlerReached ==
    pc = "la_return" =>
        /\ la.fallback # "none" => Failed(la.primary)
        /\ ~Returned.some <=> \/ la.write \in {"create_failed", "write_failed"}
                              \/ BothAttemptsFailed
                              \/ la.unlink = "raised"
        /\ ~Returned.some => "Error loading audio file" \in ui.errors
        /\ Returned.some => /\ la.result.rate = la.decoded.rate
                            /\ la.result.rate \in SampleRates

\* C2 witness: both attempts failed and load_audio is about to return None.
C2_Witness ==
    pc = "la_return" /\ BothAttemptsFailed /\ ~Returned.some

NothingCleanedShown ==
    /\ ~ui.clean_audio.some
    /\ ~ui.download.some
    /\ ~ui.stats.some

\* C3: the run halts at the first failing stage.  After a failed load_audio
\* no playback, waveform, button or download is shown; after a failed
\* remove_noise no cleaned playback, statistics or download is shown; a
\* download is offered only when load_audio, remove_noise and audio_to_bytes
\* on the cleaned signal all succeeded, and its data is that complete,
\* non-empty buffer.
C3_HaltsAtFailedStage ==
    /\ ~loaded.sig.some =>
          /\ ~ui.orig_audio.some /\ ~ui.orig_plot /\ ~ui.button
          /\ NothingCleanedShown
    /\ (nr_input.sig.some /\ ~cleaned_audio.some) => NothingCleanedShown
    /\ ui.download.some =>
          /\ loaded.sig.some
          /\ cleaned_audio.some
          /\ ui.download.data.some
          /\ Len(ui.download.data.pcm) > 0
          /\ Len(ui.download.data.pcm) = Len(cleaned_audio.num)
          /\ ui.download.data = cleaned_bytes

\* C3 witness: remove_noise failed in a run that had shown the button, and
\* the run ended.
C3_Witness ==
    pc = "done" /\ ui.button /\ nr_input.sig.some /\ ~cleaned_audio.some

AfterCleanedPlayback == pc \in {"clean_plot", "stats", "done", "crashed"}

C5_SingleEncoding ==
    /\ (ui.clean_audio.some /\ ui.download.some) => ui.download.data = ui.clean_audio
    /\ encodes <= 1

RECURSIVE HasDot(_)
HasDot(name) == name # <<>> /\ (Head(name) = "." \/ HasDot(Tail(name)))

RECURSIVE StripFinalExt(_)
\* The name without its final extension: everything before the last ".".
StripFinalExt(name) ==
    IF ~HasDot(name) THEN name
    ELSE IF ~HasDot(Tail(name)) THEN <<>>
    ELSE <<Head(name)>> \o StripFinalExt(Tail(name))

\* C6: the download is named "cleaned_" + the uploaded name without its
\* final extension + ".wav", with MIME type audio/wav, on both paths.
C6_DownloadFileName ==
    ui.download.some =>
        /\ ui.download.file_name =
              <<"cleaned_">> \o StripFinalExt(uploaded_file.name) \o <<".wav">>
        /\ ui.download.mime = "audio/wav"


\* load_audio is about to return a signal.
ReturnsSignal == pc = "la_return" /\ Returned.some

\* Some sample of some channel of the decoder's array is not zero.
DecodedNonzero ==
    \E i \in 1 .. Len(la.decoded.frames) :
        \E c \in 1 .. Len(la.decoded.frames[i]) : la.decoded.frames[i][c] # 0

\* Some sample of the channel average of the decoder's array is not zero.
MonoNonzero ==
    \E i \in 1 .. Len(la.decoded.frames) : SumSeq(la.decoded.frames[i]) # 0

\* The returned samples are the channel averages divided by their peak.
DividedByPeak ==
    LET sums == [i \in 1 .. Len(la.decoded.frames) |-> SumSeq(la.decoded.frames[i])]
    IN  /\ Len(Returned.num) = Len(sums)
        /\ \A i \in 1 .. Len(sums) : Returned.num[i] * MaxAbs(sums) = sums[i] * Returned.den

AllZero(sig) == \A i \in 1 .. Len(sig.num) : sig.num[i] = 0

InUnitRange(sig) == \A i \in 1 .. Len(sig.num) : Abs(sig.num[i]) <= sig.den

\* C7, as claimed: the returned signal has peak exactly 1.0 (every sample
\* divided by the peak) when the decoded signal has a nonzero sample, and is
\* the all-zero signal otherwise; every sample lies in [-1, 1] and the sample
\* rate is the decoder's.
C7_PeakOneUnlessDecodedAllZero ==
    ReturnsSignal =>
        /\ DecodedNonzero => (PeakNum(Returned) = Returned.den /\ DividedByPeak)
        /\ ~DecodedNonzero =>
              (AllZero(Returned) /\ Len(Returned.num) = Len(la.decoded.frames))
        /\ InUnitRange(Returned)
        /\ la.result.rate = la.decoded.rate

\* C7, amended: the returned signal has peak exactly 1.0 (every sample
\* divided by the peak) when the channel average of the decoded signal has a
\* nonzero sample, and is the all-zero signal when every averaged sample is
\* zero; every sample lies in [-1, 1] and the sample rate is the decoder's.
C7_PeakOneUnlessMonoAllZero ==
    ReturnsSignal =>
        /\ MonoNonzero => (PeakNum(Returned) = Returned.den /\ DividedByPeak)
        /\ ~MonoNonzero =>
              (AllZero(Returned) /\ Len(Returned.num) = Len(la.decoded.frames))
        /\ InUnitRange(Returned)
        /\ la.result.rate = la.decoded.rate

\* C7 witness: the fallback decoder read a two-channel file whose channel
\* average peaks below 1.0, and load_audio returns the normalised signal.
C7_Witness ==
    /\ ReturnsSignal
    /\ la.fallback = "ok"
    /\ la.decoded.ndim = 2
    /\ MonoNonzero
    /\ PeakNum(ToMono(la.decoded)) < ToMono(la.decoded).den

\* The largest PCM code audio_to_bytes should produce: 0.95 of full scale,
\* rounded to a code.
PeakCode == RoundDiv(HeadroomNum * FullScale, HeadroomDen)

\* bytes is what audio_to_bytes made of sig at rate: peak at most maxNum/maxDen
\* of full scale, a silent input encoded as silence, nothing clipped, and the
\* given sample rate declared.
EncodedWithin(bytes, sig, rate, maxNum, maxDen) ==
    bytes.some =>
        /\ Len(bytes.pcm) = Len(sig.num)
        /\ \A i \in 1 .. Len(bytes.pcm) :
              /\ Abs(bytes.pcm[i]) * maxDen <= maxNum
              /\ Abs(bytes.pcm[i]) < FullScale - 1
        /\ PeakNum(sig) > 0 =>
              /\ PeakNum(Rescale(sig)) * HeadroomDen = HeadroomNum * Rescale(sig).den
              /\ \E i \in 1 .. Len(bytes.pcm) : Abs(bytes.pcm[i]) = PeakCode
        /\ PeakNum(sig) = 0 => \A i \in 1 .. Len(bytes.pcm) : bytes.pcm[i] = 0
        /\ bytes.rate = rate

\* C8, as claimed: every encoded output peaks at no more than 0.95 of full
\* scale (exactly 0.95 before quantisation, zero for a silent input), is
\* 16-bit PCM without clipping, and declares the sample rate it was given.
C8_PeakAtMost95Percent ==
    /\ EncodedWithin(original_bytes, loaded.sig, loaded.rate,
                     HeadroomNum * FullScale, HeadroomDen)
    /\ EncodedWithin(cleaned_bytes, cleaned_audio, loaded.rate,
                     HeadroomNum * FullScale, HeadroomDen)

\* C8, amended: every encoded output peaks at no more than 0.95 of full scale
\* rounded to the nearest PCM code (31130 of 32768; exactly 0.95 before
\* quantisation, zero for a silent input), is 16-bit PCM without clipping,
\* and declares the sample rate it was given.
C8_PeakAtMostRounded95Percent ==
    /\ EncodedWithin(original_bytes, loaded.sig, loaded.rate, PeakCode, 1)
    /\ EncodedWithin(cleaned_bytes, cleaned_audio, loaded.rate, PeakCode, 1)

\* C8 witness: a cleaned signal whose peak is above 1.0 has been encoded.
C8_Witness ==
    /\ cleaned_bytes.some
    /\ PeakNum(cleaned_audio) > cleaned_audio.den

\* C9: for a zero-length and for an all-silence signal neither normalisation
\* stage raises: no decoding attempt ends in the normalisation, and
\* audio_to_bytes returns bytes for such a cleaned signal.
C9_NoErrorOnEmptyOrSilent ==
    /\ la.primary # "normalize_error"
    /\ la.fallback # "normalize_error"
    /\ (AfterCleanedPlayback /\ cleaned_audio.some /\ AllZero(cleaned_audio)) =>
          cleaned_bytes.some

\* C10: rendering leaves the ingested signal alone.  main's audio_data and
\* sample_rate stay what load_audio returned; remove_noise is called with
\* them; the Original statistics are computed from them; the cleaned audio is
\* exported at the returned sample rate.
C10_RenderingLeavesSignalUnchanged ==
    /\ audio_data = loaded.sig
    /\ sample_rate = loaded.rate
    /\ nr_input.sig.some => nr_input = loaded
    /\ ui.stats.some => ui.stats.orig_peak = <<PeakNum(loaded.sig), loaded.sig.den>>
    /\ cleaned_bytes.some => cleaned_bytes.rate = loaded.rate
    /\ ui.download.some => ui.download.data.rate = loaded.rate

\* C10 witness: the original was rendered for playback, remove_noise ran, the
\* cleaned audio was exported and the statistics are shown.
C10_Witness ==
    /\ pc = "done"
    /\ ui.orig_audio.some
    /\ nr_input.sig.some
    /\ ui.download.some
    /\ ui.stats.some

====
